---- MODULE Spec2Model ----
(***************************************************************************)
(* HashBrown: a cost table for block-merging segmentations of a series.    *)
(* The model follows src/HashBrown.py: the free functions                  *)
(* calculate_block_indices, calculate_pattern_hash, translate_segmentation *)
(* and calculate_loss_function, and the class HashBrown with its pattern   *)
(* generator and create_table.  Calls are synchronous and never interleave:*)
(* pc names the call in progress, and the frame of a call (its parameters, *)
(* locals and result) stays readable until the next call starts.           *)
(***************************************************************************)
EXTENDS Integers, Sequences, FiniteSets

\* Largest number of blocks of a HashBrown object.
MaxBlocks == 5
\* Largest series length handed to calculate_block_indices.
MaxSeriesLen == 6

VARIABLES
    n_blocks,     \* HashBrown._n_blocks
    hfunc_args,   \* HashBrown._hfunc_args: the arrlen handed to the hash function
    table,        \* HashBrown._table: [none |-> TRUE] is None, else dict holds the mapping
    pc,           \* the call in progress: "idle", "build", "scan" or "sum"
    lastop,       \* the function called last
    outcome,      \* how the last call ended: "none", "returned" or "raised"
    err,          \* the exception of a call that raised
    build,        \* frame of create_table
    trans,        \* frame of translate_segmentation / calculate_loss_function
    blocks        \* frame of calculate_block_indices

vars == <<n_blocks, hfunc_args, table, pc, lastop, outcome, err, build, trans, blocks>>

objVars == <<n_blocks, hfunc_args>>

(***************************************************************************)
(* Helpers on sequences and dicts.                                         *)
(***************************************************************************)
RECURSIVE SumSeq(_)
SumSeq(s) == IF s = <<>> THEN 0 ELSE Head(s) + SumSeq(Tail(s))

Range(s) == {s[j] : j \in 1..Len(s)}

\* d[key] = value of a Python dict: a later insertion replaces an earlier one.
DictPut(d, key, value) ==
    [k \in (DOMAIN d) \cup {key} |-> IF k = key THEN value ELSE d[k]]

EmptyDict == [k \in {} |-> 0]

\* Binary arrays of length n.
BinaryArrays(n) == [1..n -> {0, 1}]

(***************************************************************************)
(* calculate_pattern_hash                                                  *)
(***************************************************************************)
calculate_pattern_hash(pattern_spec, arrlen) ==
    LET pos == pattern_spec[1]
        length == pattern_spec[2]
    IN  ((length - 1) * (2 * arrlen - (length - 2))) \div 2 + pos

\* The injected hash callable: HashBrown is handed calculate_pattern_hash
\* and its arrlen travels in hfunc_args.
hfunc(pattern) == calculate_pattern_hash(pattern, hfunc_args)

\* The injected cost callable: a deterministic function of the pattern that
\* gives distinct patterns distinct costs whose sums identify the patterns.
func(pattern) == 2 ^ (pattern[1] + n_blocks * (pattern[2] - 1))

(***************************************************************************)
(* calculate_block_indices                                                 *)
(***************************************************************************)
\* np.array_split: the first (length % sections) parts hold one more element.
DivPoint_SmallFirst(k, length, sections) ==
    LET each == length \div sections
        extras == length % sections
        small == sections - extras
    IN  IF k <= small THEN k * each
        ELSE small * each + (k - small) * (each + 1)

DivPoint(k, length, sections) ==
    LET each == length \div sections
        extras == length % sections
    IN  IF k <= extras THEN k * (each + 1)
        ELSE extras * (each + 1) + (k - extras) * each

\* (idcs[0], idcs[-1]) of every part.
BlockIndices(length, sections) ==
    [b \in 1..sections |->
        <<DivPoint(b - 1, length, sections), DivPoint(b, length, sections) - 1>>]

NoBlocks == [series_length |-> 0, n_blocks |-> 0, block_indices |-> <<>>]

(***************************************************************************)
(* HashBrown.create_pattern_generator                                      *)
(***************************************************************************)
\* A fresh generator: i_end = 0, i_start = 0.
create_pattern_generator == [i_end |-> 0, i_start |-> 0]

GenExhausted(g) == g.i_end >= n_blocks

GenYield(g) == <<g.i_start, g.i_end + 1>>

GenAdvance_ShortInner(g) ==
    IF g.i_start + 1 < n_blocks - g.i_end - 1
    THEN [g EXCEPT !.i_start = g.i_start + 1]
    ELSE [i_end |-> g.i_end + 1, i_start |-> 0]

GenAdvance(g) ==
    IF g.i_start + 1 < n_blocks - g.i_end
    THEN [g EXCEPT !.i_start = g.i_start + 1]
    ELSE [i_end |-> g.i_end + 1, i_start |-> 0]

NoBuild ==
    [patterns |-> create_pattern_generator,
     table    |-> EmptyDict,
     yielded  |-> <<>>,    \* the patterns the generator has produced, in order
     hkeys    |-> <<>>]    \* the keys hfunc returned for them, in order

(***************************************************************************)
(* translate_segmentation                                                  *)
(***************************************************************************)
StoreSize == MaxBlocks + 1

StoreSlots == 0..(StoreSize - 1)

\* What a caller's store may hold before the call: a fresh fill, or the
\* keys an earlier call left behind.
StoreContents ==
    {[s \in StoreSlots |-> v] : v \in {-1, 0}} \cup {[s \in StoreSlots |-> s + 1]}

\* Values an unassigned local can hold in a compiled build.
UninitValues == {-1, 0, 1}

NoTrans ==
    [arr       |-> <<>>,
     store     |-> [s \in StoreSlots |-> 0],
     store0    |-> [s \in StoreSlots |-> 0],  \* the store as it was handed in
     is_free   |-> TRUE,
     length    |-> 1,
     iseg      |-> -1,
     arrlen    |-> 1,
     i         |-> <<>>,     \* <<>>: not assigned yet, else <<value>>
     pos       |-> <<>>,     \* <<>>: not assigned yet, else <<value>>
     idx       |-> 0,        \* position of enumerate(arr)
     pats      |-> <<>>,     \* the pattern each emitted key stands for
     writes    |-> <<>>,     \* the store slots written, in order
     done      |-> FALSE,
     caller    |-> "none",
     hash_keys |-> <<>>,     \* store[:iseg + 1] as returned
     loss      |-> 0]

\* The two statements of the store write in the wrong order: store[iseg] is
\* written before iseg moves on (index -1 is the last slot of the store).
Emit_StaleSlot(t, hash_, pattern) ==
    LET slot == IF t.iseg < 0 THEN StoreSize + t.iseg ELSE t.iseg
    IN  [t EXCEPT !.iseg = t.iseg + 1,
                  !.store = [t.store EXCEPT ![slot] = hash_],
                  !.pats = Append(t.pats, pattern),
                  !.writes = Append(t.writes, slot)]

\* iseg += 1; store[iseg] = hash_
Emit(t, hash_, pattern) ==
    [t EXCEPT !.iseg = t.iseg + 1,
              !.store = [t.store EXCEPT ![t.iseg + 1] = hash_],
              !.pats = Append(t.pats, pattern),
              !.writes = Append(t.writes, t.iseg + 1)]

\* One iteration of the loop without "length = 1" at the end of a run.
ScanOne_NoLengthReset(t) ==
    LET i == t.idx
        x == t.arr[t.idx + 1]
        t1 == [t EXCEPT !.i = <<i>>, !.idx = t.idx + 1]
    IN  IF x = 1
        THEN LET t2 == IF t1.is_free
                       THEN [t1 EXCEPT !.pos = <<i>>, !.is_free = FALSE]
                       ELSE t1
             IN  [t2 EXCEPT !.length = t2.length + 1]
        ELSE IF t1.length > 1
             THEN Emit([t1 EXCEPT !.is_free = TRUE],
                       calculate_pattern_hash(<<t1.pos[1], t1.length>>, t1.arrlen),
                       <<t1.pos[1], t1.length>>)
             ELSE Emit(t1, i, <<i, 1>>)

\* One iteration of "for i, x in enumerate(arr)".
ScanOne(t) ==
    LET i == t.idx
        x == t.arr[t.idx + 1]
        t1 == [t EXCEPT !.i = <<i>>, !.idx = t.idx + 1]
    IN  IF x = 1
        THEN LET t2 == IF t1.is_free
                       THEN [t1 EXCEPT !.pos = <<i>>, !.is_free = FALSE]
                       ELSE t1
             IN  [t2 EXCEPT !.length = t2.length + 1]
        ELSE IF t1.length > 1
             THEN Emit([t1 EXCEPT !.length = 1, !.is_free = TRUE],
                       calculate_pattern_hash(<<t1.pos[1], t1.length>>, t1.arrlen),
                       <<t1.pos[1], t1.length>>)
             ELSE Emit(t1, i, <<i, 1>>)

\* return store[:iseg + 1]
Returned(t) ==
    [t EXCEPT !.done = TRUE,
              !.hash_keys = [j \in 1..(t.iseg + 1) |-> t.store[j - 1]]]

(***************************************************************************)
(* Initial state: a constructed HashBrown object, no call made yet.        *)
(* hfunc_args holds the arrlen the caller passes on to the hash function:  *)
(* n_blocks - 1 as the docstring of calculate_pattern_hash defines it, or  *)
(* n_blocks, the value translate_segmentation itself uses.                 *)
(***************************************************************************)
NoneTable == [none |-> TRUE, dict |-> EmptyDict]

Init ==
    /\ n_blocks \in 1..MaxBlocks
    /\ hfunc_args \in {n_blocks - 1, n_blocks}
    /\ table = NoneTable
    /\ pc = "idle"
    /\ lastop = "none"
    /\ outcome = "none"
    /\ err = "none"
    /\ build = NoBuild
    /\ trans = NoTrans
    /\ blocks = NoBlocks

(***************************************************************************)
(* HashBrown.create_table                                                  *)
(***************************************************************************)
CallCreateTable ==
    /\ pc = "idle"
    /\ pc' = "build"
    /\ lastop' = "create_table"
    /\ outcome' = "none"
    /\ err' = "none"
    /\ build' = NoBuild
    /\ trans' = NoTrans
    /\ blocks' = NoBlocks
    /\ UNCHANGED <<objVars, table>>

\* The comprehension's step for one pattern, were it to store into the
\* attribute instead of the local dict.
BuildStep_WritesAttribute ==
    /\ pc = "build"
    /\ ~GenExhausted(build.patterns)
    /\ LET pattern == GenYield(build.patterns)
           key == hfunc(pattern)
           value == func(pattern)
       IN  /\ build' = [build EXCEPT !.patterns = GenAdvance(build.patterns),
                                     !.table = DictPut(build.table, key, value),
                                     !.yielded = Append(build.yielded, pattern),
                                     !.hkeys = Append(build.hkeys, key)]
           /\ table' = [none |-> FALSE, dict |-> DictPut(build.table, key, value)]
    /\ UNCHANGED <<objVars, pc, lastop, outcome, err, trans, blocks>>

\* The comprehension's step for one pattern: table[hfunc(pattern)] = func(pattern).
BuildStep ==
    /\ pc = "build"
    /\ ~GenExhausted(build.patterns)
    /\ LET pattern == GenYield(build.patterns)
           key == hfunc(pattern)
           value == func(pattern)
       IN  build' = [build EXCEPT !.patterns = GenAdvance(build.patterns),
                                  !.table = DictPut(build.table, key, value),
                                  !.yielded = Append(build.yielded, pattern),
                                  !.hkeys = Append(build.hkeys, key)]
    /\ UNCHANGED <<objVars, table, pc, lastop, outcome, err, trans, blocks>>

\* The cost or the hash callable raises on the next pattern: the exception
\* leaves create_table before self._table is assigned.
BuildRaise ==
    /\ pc = "build"
    /\ ~GenExhausted(build.patterns)
    /\ pc' = "idle"
    /\ outcome' = "raised"
    /\ err' = "CallableError"
    /\ UNCHANGED <<objVars, table, lastop, build, trans, blocks>>

\* self._table = table
BuildFinish ==
    /\ pc = "build"
    /\ GenExhausted(build.patterns)
    /\ table' = [none |-> FALSE, dict |-> build.table]
    /\ pc' = "idle"
    /\ outcome' = "returned"
    /\ UNCHANGED <<objVars, lastop, err, build, trans, blocks>>

(***************************************************************************)
(* translate_segmentation, called directly or by calculate_loss_function.  *)
(***************************************************************************)
EnterTranslate(arr, store, caller) ==
    /\ pc' = "scan"
    /\ outcome' = "none"
    /\ err' = "none"
    /\ trans' = [NoTrans EXCEPT !.arr = arr, !.store = store, !.store0 = store,
                                !.arrlen = Len(arr) + 1, !.caller = caller]
    /\ build' = NoBuild
    /\ blocks' = NoBlocks
    /\ UNCHANGED <<objVars, table>>

CallTranslate ==
    /\ pc = "idle"
    /\ lastop' = "translate_segmentation"
    /\ \E arr \in BinaryArrays(n_blocks - 1), store \in StoreContents :
           EnterTranslate(arr, store, "none")

\* calculate_loss_function(segmentation, store, hash_table) with the
\* object's table as hash_table.
CallLoss ==
    /\ pc = "idle"
    /\ ~table.none
    /\ lastop' = "calculate_loss_function"
    /\ \E arr \in BinaryArrays(n_blocks - 1), store \in StoreContents :
           EnterTranslate(arr, store, "loss")

ScanStep ==
    /\ pc = "scan"
    /\ trans.idx < Len(trans.arr)
    /\ trans' = ScanOne(trans)
    /\ UNCHANGED <<objVars, table, pc, lastop, outcome, err, build, blocks>>

\* The return of translate_segmentation: back to the caller.
Leave(t) ==
    /\ trans' = Returned(t)
    /\ IF t.caller = "loss"
       THEN pc' = "sum" /\ outcome' = "none"
       ELSE pc' = "idle" /\ outcome' = "returned"
    /\ UNCHANGED <<objVars, table, lastop, err, build, blocks>>

\* "last element", with i assigned by the loop or a run left open.
LastElement ==
    /\ pc = "scan"
    /\ trans.idx = Len(trans.arr)
    /\ IF trans.length > 1
       THEN Leave(Emit(trans,
                       calculate_pattern_hash(<<trans.pos[1], trans.length>>, trans.arrlen),
                       <<trans.pos[1], trans.length>>))
       ELSE /\ trans.i # <<>>
            /\ Leave(Emit(trans, trans.i[1] + 1, <<trans.i[1] + 1, 1>>))

\* "last element" when the loop never ran: hash_ = i + 1 reads i, which was
\* never assigned.  The interpreter raises UnboundLocalError ...
LastElementUnbound ==
    /\ pc = "scan"
    /\ trans.idx = Len(trans.arr)
    /\ trans.length <= 1
    /\ trans.i = <<>>
    /\ pc' = "idle"
    /\ outcome' = "raised"
    /\ err' = "UnboundLocalError"
    /\ UNCHANGED <<objVars, table, lastop, build, trans, blocks>>

\* ... and a compiled build reads whatever the slot of i holds.
LastElementUninit ==
    /\ pc = "scan"
    /\ trans.idx = Len(trans.arr)
    /\ trans.length <= 1
    /\ trans.i = <<>>
    /\ \E u \in UninitValues : Leave(Emit(trans, u + 1, <<u + 1, 1>>))

(***************************************************************************)
(* calculate_loss_function: loss = sum(hash_table[k] for k in hash_keys)   *)
(***************************************************************************)
SumLoss ==
    /\ pc = "sum"
    /\ \A j \in 1..Len(trans.hash_keys) : trans.hash_keys[j] \in DOMAIN table.dict
    /\ trans' = [trans EXCEPT !.loss =
                    SumSeq([j \in 1..Len(trans.hash_keys) |-> table.dict[trans.hash_keys[j]]])]
    /\ pc' = "idle"
    /\ outcome' = "returned"
    /\ UNCHANGED <<objVars, table, lastop, err, build, blocks>>

\* hash_table[k] of a key the table does not hold.
SumLossKeyError ==
    /\ pc = "sum"
    /\ \E j \in 1..Len(trans.hash_keys) : trans.hash_keys[j] \notin DOMAIN table.dict
    /\ pc' = "idle"
    /\ outcome' = "raised"
    /\ err' = "KeyError"
    /\ UNCHANGED <<objVars, table, lastop, build, trans, blocks>>

(***************************************************************************)
(* calculate_block_indices(series, n_blocks)                               *)
(***************************************************************************)
EnterBlockIndices(length, sections) ==
    /\ pc = "idle"
    /\ lastop' = "calculate_block_indices"
    /\ build' = NoBuild
    /\ trans' = NoTrans
    /\ UNCHANGED <<objVars, table, pc>>

CallBlockIndices ==
    \E length \in 0..MaxSeriesLen, sections \in 1..(MaxSeriesLen + 1) :
        /\ sections <= length
        /\ EnterBlockIndices(length, sections)
        /\ blocks' = [series_length |-> length, n_blocks |-> sections,
                      block_indices |-> BlockIndices(length, sections)]
        /\ outcome' = "returned"
        /\ err' = "none"

\* if n_blocks > series.shape[1]: raise IndexError
CallBlockIndicesTooMany ==
    \E length \in 0..MaxSeriesLen, sections \in 1..(MaxSeriesLen + 1) :
        /\ sections > length
        /\ EnterBlockIndices(length, sections)
        /\ blocks' = [series_length |-> length, n_blocks |-> sections,
                      block_indices |-> <<>>]
        /\ outcome' = "raised"
        /\ err' = "IndexError"

Next ==
    \/ CallCreateTable
    \/ BuildStep
    \/ BuildRaise
    \/ BuildFinish
    \/ CallTranslate
    \/ CallLoss
    \/ ScanStep
    \/ LastElement
    \/ LastElementUnbound
    \/ LastElementUninit
    \/ SumLoss
    \/ SumLossKeyError
    \/ CallBlockIndices
    \/ CallBlockIndicesTooMany

Spec == Init /\ [][Next]_vars

(***************************************************************************)
(* Vocabulary of the properties.                                           *)
(***************************************************************************)
ValidPatterns(n) == {p \in (0..(n - 1)) \X (1..n) : p[1] + p[2] <= n}

TotalPatterns(n) == (n * (n + 1)) \div 2

NoRepeats(s) == \A a, b \in 1..Len(s) : a # b => s[a] # s[b]

\* The decomposition of a decisions string, read off the string itself:
\* a pattern starts at block 0 and after every 0 decision, and runs up to
\* the next start.
DecompStarts(arr) == {b \in 0..Len(arr) : b = 0 \/ arr[b] = 0}

DecompEnd(arr, s) ==
    LET later == {e \in DecompStarts(arr) \cup {Len(arr) + 1} : e > s}
    IN  CHOOSE e \in later : \A f \in later : e <= f

Decomposition(arr) == {<<s, DecompEnd(arr, s) - s>> : s \in DecompStarts(arr)}

DecompositionSeq(arr) ==
    LET D == Decomposition(arr)
    IN  [j \in 1..Cardinality(D) |->
            CHOOSE p \in D : Cardinality({q \in D : q[1] < p[1]}) = j - 1]

BuildReturned == pc = "idle" /\ lastop = "create_table" /\ outcome = "returned"

BlockSize(b) == b[2] - b[1] + 1

\* C1: with arrlen = n_blocks - 1, as the docstring of calculate_pattern_hash
\* defines it, the keys of all valid patterns of n_blocks blocks are exactly
\* 0 .. n_blocks*(n_blocks+1)/2 - 1, no key repeated and none missed.
C1_DocstringHashIsBijection ==
    (BuildReturned /\ hfunc_args = n_blocks - 1) =>
        /\ Range(build.yielded) = ValidPatterns(n_blocks)
        /\ NoRepeats(build.hkeys)
        /\ Range(build.hkeys) = 0..(TotalPatterns(n_blocks) - 1)

\* C2: for n_blocks >= 2 the patterns translate_segmentation emits partition
\* the blocks in emission order: the first starts at block 0, each next one
\* starts right after the previous one ends, the last ends at block
\* n_blocks - 1 and the lengths sum to n_blocks; a multi-block key is the hash
\* of its run and a directly emitted key is the position of its singleton.
C2_TranslatePartitionsBlocks ==
    (trans.done /\ Len(trans.arr) >= 1) =>
        LET p == trans.pats
            n == Len(trans.arr) + 1
        IN  /\ Len(p) >= 1
            /\ Len(trans.hash_keys) = Len(p)
            /\ p[1][1] = 0
            /\ \A j \in 1..Len(p) : p[j][2] >= 1
            /\ \A j \in 1..(Len(p) - 1) : p[j + 1][1] = p[j][1] + p[j][2]
            /\ p[Len(p)][1] + p[Len(p)][2] - 1 = n - 1
            /\ SumSeq([j \in 1..Len(p) |-> p[j][2]]) = n
            /\ \A j \in 1..Len(p) :
                   trans.hash_keys[j] = IF p[j][2] > 1
                                        THEN calculate_pattern_hash(p[j], n)
                                        ELSE p[j][1]

\* C2 witness: a finished translation that emitted a run and a singleton.
C2_Witness ==
    /\ trans.done
    /\ Len(trans.arr) >= 2
    /\ \E j, k \in 1..Len(trans.pats) : trans.pats[j][2] > 1 /\ trans.pats[k][2] = 1

\* C3: with the table built for n_blocks by the hasher called with
\* arrlen = n_blocks - 1, every key translate_segmentation emits for a
\* decisions string of length n_blocks - 1 is a key of the table.
C3_EmittedKeysAreTableKeys ==
    (pc = "sum" /\ hfunc_args = n_blocks - 1 /\ n_blocks >= 2) =>
        \A j \in 1..Len(trans.hash_keys) : trans.hash_keys[j] \in DOMAIN table.dict

\* C4: create_table never completes when the hash function returned the
\* same key for two distinct enumerated patterns.
C4_DuplicateKeyFailsBuild ==
    BuildReturned => NoRepeats(build.hkeys)

\* C5: the generator yields (0, 1) first, then after (position, length) it
\* yields (position + 1, length) while that pattern is valid and
\* (0, length + 1) otherwise; every yielded pattern is valid and none is
\* repeated; when it is exhausted it has yielded all n_blocks*(n_blocks+1)/2
\* valid patterns; every call of create_table starts again at (0, 1).
C5_GeneratorCanonicalOrder ==
    LET y == build.yielded
    IN  /\ Len(y) >= 1 => y[1] = <<0, 1>>
        /\ \A j \in 1..(Len(y) - 1) :
               y[j + 1] = IF y[j][1] + y[j][2] < n_blocks
                          THEN <<y[j][1] + 1, y[j][2]>>
                          ELSE <<0, y[j][2] + 1>>
        /\ \A j \in 1..Len(y) : y[j] \in ValidPatterns(n_blocks)
        /\ NoRepeats(y)
        /\ (pc = "build" /\ ~GenExhausted(build.patterns)) =>
               Len(y) < TotalPatterns(n_blocks)
        /\ ((pc = "build" /\ GenExhausted(build.patterns)) \/ BuildReturned) =>
               /\ Len(y) = TotalPatterns(n_blocks)
               /\ Range(y) = ValidPatterns(n_blocks)

\* C5 witness: a second create_table call has run its generator dry.
C5_Witness ==
    /\ ~table.none
    /\ pc = "build"
    /\ GenExhausted(build.patterns)
    /\ n_blocks >= 3

\* A table with an entry for every enumerated pattern.
TableComplete ==
    table.none \/ \A p \in ValidPatterns(n_blocks) : hfunc(p) \in DOMAIN table.dict

\* C6: the table attribute is None at first; only a create_table call that
\* has enumerated every pattern changes it, to a table with an entry for
\* every pattern; a call that raises leaves it as it was.
C6_TableNeverPartial ==
    /\ table.none
    /\ [][/\ (pc = "build" /\ outcome' = "raised") => table' = table
          /\ table' # table =>
                 /\ pc = "build"
                 /\ GenExhausted(build.patterns)
                 /\ outcome' = "returned"
                 /\ ~table'.none
          /\ TableComplete']_vars

\* C6 witness: a build that raised after storing keys, on an object whose
\* earlier build completed.
C6_Witness ==
    /\ lastop = "create_table"
    /\ outcome = "raised"
    /\ ~table.none
    /\ Len(build.hkeys) >= 1
    /\ Len(build.hkeys) < TotalPatterns(n_blocks)

\* C7: for n_blocks = 1 translate_segmentation returns the one key 0 and
\* calculate_loss_function returns the table's only entry.
C7_SingleBlockEmitsKeyZero ==
    (n_blocks = 1 /\ pc = "idle"
        /\ lastop \in {"translate_segmentation", "calculate_loss_function"}) =>
        /\ outcome = "returned"
        /\ trans.hash_keys = <<0>>
        /\ lastop = "calculate_loss_function" => trans.loss = func(<<0, 1>>)

\* C8: with the table built by the hasher called with arrlen = n_blocks - 1,
\* calculate_loss_function returns the sum of the costs of the patterns of
\* the decomposition of its decisions string.
C8_LossIsSumOfDecompositionCosts ==
    (pc = "idle" /\ lastop = "calculate_loss_function"
        /\ hfunc_args = n_blocks - 1 /\ n_blocks >= 2) =>
        /\ outcome = "returned"
        /\ LET d == DecompositionSeq(trans.arr)
           IN  trans.loss = SumSeq([j \in 1..Len(d) |-> func(d[j])])

\* C9: for 1 <= n_blocks <= series_length calculate_block_indices returns
\* n_blocks inclusive (first, last) pairs: the first starts at 0, each next
\* one starts at the previous last + 1, the last ends at series_length - 1,
\* sizes differ by at most 1 and no smaller block precedes a larger one; for
\* n_blocks > series_length it raises and returns nothing.
C9_BlockIndicesPartition ==
    lastop = "calculate_block_indices" =>
        LET b == blocks.block_indices
            n == blocks.n_blocks
        IN  IF n > blocks.series_length
            THEN outcome = "raised" /\ err = "IndexError" /\ b = <<>>
            ELSE /\ outcome = "returned"
                 /\ Len(b) = n
                 /\ b[1][1] = 0
                 /\ b[n][2] = blocks.series_length - 1
                 /\ \A j \in 1..n : b[j][1] <= b[j][2]
                 /\ \A j \in 1..(n - 1) : b[j + 1][1] = b[j][2] + 1
                 /\ \A j, k \in 1..n :
                        /\ BlockSize(b[j]) - BlockSize(b[k]) <= 1
                        /\ j < k => BlockSize(b[j]) >= BlockSize(b[k])

\* C9 witness: an uneven split into several blocks.
C9_Witness ==
    /\ lastop = "calculate_block_indices"
    /\ outcome = "returned"
    /\ blocks.n_blocks >= 2
    /\ blocks.series_length % blocks.n_blocks # 0

\* C10: translate_segmentation writes the store slots 0, 1, 2, ... in this
\* order, each once, never a slot at index >= n_blocks, and leaves every
\* other slot as it was handed in; for n_blocks >= 2 it returns
\* 1 + (number of 0 decisions) keys, between 1 and n_blocks, and they are the
\* keys of the decomposition of the decisions string whatever the store held.
C10_StoreWritesAndKeyCount ==
    /\ trans.writes = [j \in 1..Len(trans.writes) |-> j - 1]
    /\ Len(trans.writes) <= Len(trans.arr) + 1
    /\ \A s \in StoreSlots :
           s >= Len(trans.writes) => trans.store[s] = trans.store0[s]
    /\ (trans.done /\ Len(trans.arr) >= 1) =>
           LET k == 1 + Cardinality({j \in 1..Len(trans.arr) : trans.arr[j] = 0})
               d == DecompositionSeq(trans.arr)
           IN  /\ Len(trans.hash_keys) = k
               /\ Len(trans.writes) = k
               /\ 1 <= k /\ k <= Len(trans.arr) + 1
               /\ trans.hash_keys =
                      [j \in 1..k |-> calculate_pattern_hash(d[j], Len(trans.arr) + 1)]

\* C10 witness: a finished translation that wrote some slots and left
\* others, whose contents differ from the keys, alone.
C10_Witness ==
    /\ trans.done
    /\ Len(trans.arr) >= 2
    /\ Len(trans.hash_keys) >= 2
    /\ Len(trans.hash_keys) <= Len(trans.arr)
    /\ \E s \in StoreSlots : trans.store0[s] = -1 /\ trans.store[s] # -1
    /\ \E s \in StoreSlots : s >= Len(trans.writes) /\ trans.store[s] = -1

====
